---------------------------- MODULE Spec2Model ----------------------------
(***************************************************************************)
(* rs-w3r: a command-line HTTP request tool (src/src/main.rs,              *)
(* src/src/client.rs).                                                     *)
(*                                                                         *)
(* The module holds six state machines over one set of variables:          *)
(*   Spec        execute_request: request construction, the verbose        *)
(*               request trace, the dry-run return, the retry loop of      *)
(*               execute_request_with_retry and handle_response;           *)
(*   SpecLive    execute_request again, with the fairness of a running     *)
(*               program, for what it eventually does;                     *)
(*   SpecArgs    main: the preset / default configuration and              *)
(*               apply_args_to_config;                                     *)
(*   SpecStatus  should_retry_for_status over every u16 status code;       *)
(*   SpecJson    extract_json_path over bounded JSON values and paths;     *)
(*   SpecFormat  format_response_body over bounded response bodies;        *)
(*   SpecBound   the attempt bound of execute_request_with_retry over the  *)
(*               u32 values of Config.retry, and the first turn of the     *)
(*               loop under that bound.                                    *)
(*                                                                         *)
(* Durations are modelled as natural numbers of delay units: the code      *)
(* multiplies the f64 retry_delay by a power of two, which is exact.       *)
(* The proxy, the cookie jar and the timing report are not modelled.       *)
(***************************************************************************)
EXTENDS Integers, Sequences, FiniteSets, TLC

VARIABLES
    config,           \* client.rs Config, the fields the engine reads
    pc,               \* position inside execute_request
    current_attempt,  \* execute_request_with_retry: current_attempt
    max_attempts,     \* execute_request_with_retry: max_attempts
    outcomes,         \* what client.execute returned at each attempt
    sleeps,           \* the argument of every thread::sleep, in order
    stdout,           \* what println! wrote, in order
    file,             \* what save_response_to_file wrote
    context,          \* RequestContext: default_headers and the request's headers
    rendered,         \* what handle_response handed to output_response
    engine,           \* the value execute_request_with_retry returned
    result,           \* the value execute_request returned
    cli,              \* main: the options the command line passes
    args,             \* main: Args, what clap parsed (defaults filled in)
    preset,           \* main: the ConfigPreset of the configuration file
    merged,           \* main: the Config handed to execute_request
    mpc,              \* position inside main
    status_arg,      \* a u16 status handed to should_retry_for_status
    verdict,          \* what should_retry_for_status returned
    json_arg,         \* the parsed body handed to extract_json_path
    path_arg,         \* the filter path handed to extract_json_path
    extracted,        \* what extract_json_path returned
    body_arg,         \* the response body handed to format_response_body
    format_config,    \* the pretty_json and json_filter of its Config
    formatted,        \* what format_response_body returned
    retry_arg,        \* a u32 Config.retry, as two 16-bit halves
    overflow_checks,  \* whether the build checks integer overflow
    bound             \* the attempt bound and the first turn under it

request_vars == <<config, pc, current_attempt, max_attempts, outcomes, sleeps,
                  stdout, file, context, rendered, engine, result>>
main_vars == <<cli, args, preset, merged, mpc>>
status_vars == <<status_arg, verdict>>
json_vars == <<json_arg, path_arg, extracted>>
format_vars == <<body_arg, format_config, formatted>>
bound_vars == <<retry_arg, overflow_checks, bound>>

vars == <<request_vars, main_vars, status_vars, json_vars, format_vars, bound_vars>>

-----------------------------------------------------------------------------
(* Bounds of the model *)

MaxRetries == 2
MaxDelay == 2

-----------------------------------------------------------------------------
(* Constants of client.rs *)

DEFAULT_RETRY_COUNT == 0
DEFAULT_RETRY_DELAY == 1
DEFAULT_TIMEOUT_SECS == 30
DEFAULT_METHOD == "GET"
RETRY_BACKOFF_MULTIPLIER == 2
SERVER_ERROR_START == 500
SERVER_ERROR_END == 599
TOO_MANY_REQUESTS == 429
REQUEST_TIMEOUT == 408
BASIC_AUTH_PLACEHOLDER == "Basic <credentials>"
ERROR_UNKNOWN_METHOD == "Unknown HTTP method"
USER_AGENT == "rs-w3r/1.0"

(* 2^16, the number of u16 values; u32 arithmetic is done on 16-bit halves,  *)
(* 2^32 being more than a TLC integer holds                                  *)
U16 == 65536

None == [some |-> FALSE]
Some(v) == [some |-> TRUE, value |-> v]

-----------------------------------------------------------------------------
(* Pure helpers *)

RECURSIVE powi(_, _)
powi(base, exp) == IF exp = 0 THEN 1 ELSE base * powi(base, exp - 1)

saturating_sub(a, b) == IF a >= b THEN a - b ELSE 0

(* a retry test that takes every 4xx and 5xx status for retryable *)
should_retry_for_status_any_error(status_code) ==
    status_code >= 400 /\ status_code <= SERVER_ERROR_END

should_retry_for_status(status_code) ==
    \/ (status_code >= SERVER_ERROR_START /\ status_code <= SERVER_ERROR_END)
    \/ status_code = TOO_MANY_REQUESTS
    \/ status_code = REQUEST_TIMEOUT

(* a backoff whose exponent is the attempt number itself *)
handle_retry_delay_exponent_off(cfg, attempt) ==
    cfg.retry_delay * powi(RETRY_BACKOFF_MULTIPLIER, attempt)

(* handle_retry_delay: the duration it sleeps *)
handle_retry_delay(cfg, attempt) ==
    cfg.retry_delay * powi(RETRY_BACKOFF_MULTIPLIER, saturating_sub(attempt, 1))

(* a retry after a transport error that always waits the base delay *)
handle_request_error_retry_flat(cfg, attempt) == cfg.retry_delay

(* handle_request_error_retry: the duration it sleeps *)
handle_request_error_retry(cfg, attempt) ==
    cfg.retry_delay * powi(RETRY_BACKOFF_MULTIPLIER, saturating_sub(attempt, 1))

-----------------------------------------------------------------------------
(* Header maps: reqwest::header::HeaderMap as a sequence of <<name, value>>  *)
(* with one entry per name; insert replaces the value of a name it holds.    *)

AUTHORIZATION == "authorization"
USER_AGENT_NAME == "user-agent"

hm_contains_key(map, name) == \E i \in DOMAIN map : map[i][1] = name

hm_insert(map, name, value) ==
    IF hm_contains_key(map, name)
    THEN [i \in DOMAIN map |-> IF map[i][1] = name THEN <<name, value>> ELSE map[i]]
    ELSE Append(map, <<name, value>>)

(* A configured header entry is a string "Name: Value".  The model keeps the *)
(* entry as the pieces the code derives from it: colon is whether the entry  *)
(* holds a ':', key and value are what split_once(':') returns.              *)
HeaderEntry(colon, key, value) == [colon |-> colon, key |-> key, value |-> value]

split_once_colon(header_entry) ==
    IF header_entry.colon
    THEN Some(<<header_entry.key, header_entry.value>>)
    ELSE None

(* HeaderName::from_bytes: a valid token is accepted and lower-cased. *)
header_name_from_bytes(key) ==
    CASE key = "Authorization" -> Some("authorization")
      [] key = "authorization" -> Some("authorization")
      [] key = "X-Test" -> Some("x-test")
      [] key = "User-Agent" -> Some("user-agent")
      [] OTHER -> None

(* str::trim on the header values the model uses *)
trim_header_value(value) ==
    CASE value = " Bearer tok" -> "Bearer tok"
      [] value = " 1 " -> "1"
      [] value = " custom/2.0" -> "custom/2.0"
      [] OTHER -> value

RECURSIVE setup_default_headers_from(_, _)
setup_default_headers_from(header_list, default_headers) ==
    IF header_list = <<>> THEN default_headers
    ELSE LET header_entry == Head(header_list)
             split == split_once_colon(header_entry)
             name == IF split.some THEN header_name_from_bytes(split.value[1]) ELSE None
             next == IF split.some /\ name.some
                     THEN hm_insert(default_headers, name.value, trim_header_value(split.value[2]))
                     ELSE default_headers
         IN  setup_default_headers_from(Tail(header_list), next)

setup_default_headers(cfg, default_headers) ==
    IF cfg.headers.some
    THEN setup_default_headers_from(cfg.headers.value, default_headers)
    ELSE default_headers

(* create_http_client: the default_headers map of the RequestContext *)
create_http_client(cfg) ==
    setup_default_headers(cfg, <<<<USER_AGENT_NAME, USER_AGENT>>>>)

-----------------------------------------------------------------------------
(* Request construction *)

SupportedMethods == {"GET", "POST", "PUT", "DELETE", "HEAD", "PATCH"}

(* http::Method::from_bytes: a token is a method (a standard one or an       *)
(* extension), anything else is an InvalidMethod error.                      *)
MethodTokens == SupportedMethods \cup {"OPTIONS", "TRACE", "CONNECT", "get", "FOO"}

method_from_bytes(method) ==
    IF method \in MethodTokens THEN Some(method) ELSE None

(* a request builder that takes every method token *)
create_request_builder_any(method) == [ok |-> TRUE, error |-> ""]

create_request_builder(method) ==
    IF method \in SupportedMethods
    THEN [ok |-> TRUE, error |-> ""]
    ELSE [ok |-> FALSE, error |-> ERROR_UNKNOWN_METHOD]

(* RequestBuilder::basic_auth: Authorization: Basic base64(user:pass) *)
basic_auth_value(auth) == "Basic base64(" \o auth.user \o ":" \o auth.pass \o ")"

apply_authentication(request_headers, cfg) ==
    IF cfg.basic_auth.some
    THEN hm_insert(request_headers, AUTHORIZATION, basic_auth_value(cfg.basic_auth.value))
    ELSE request_headers

(* build_request: the request's own header map, or the error *)
build_request(cfg) ==
    LET method == method_from_bytes(cfg.method)
    IN  IF ~method.some
        THEN [ok |-> FALSE, error |-> "invalid HTTP method", headers |-> <<>>]
        ELSE IF ~create_request_builder(method.value).ok
        THEN [ok |-> FALSE, error |-> create_request_builder(method.value).error,
              headers |-> <<>>]
        ELSE IF ~cfg.url_valid
        THEN [ok |-> FALSE, error |-> "builder error", headers |-> <<>>]
        ELSE [ok |-> TRUE, error |-> "", headers |-> apply_authentication(<<>>, cfg)]

-----------------------------------------------------------------------------
(* What println! writes: one record per line *)

Line(kind, name, value) == [kind |-> kind, name |-> name, value |-> value]

RECURSIVE default_header_lines(_)
default_header_lines(default_headers) ==
    IF default_headers = <<>> THEN <<>>
    ELSE LET name == Head(default_headers)[1]
             value == Head(default_headers)[2]
             display_value == IF name = AUTHORIZATION
                              THEN BASIC_AUTH_PLACEHOLDER
                              ELSE value
         IN  <<Line("request_header", name, display_value)>>
             \o default_header_lines(Tail(default_headers))

RECURSIVE request_header_lines(_, _)
request_header_lines(request_headers, default_headers) ==
    IF request_headers = <<>> THEN <<>>
    ELSE LET name == Head(request_headers)[1]
             value == Head(request_headers)[2]
             rest == request_header_lines(Tail(request_headers), default_headers)
         IN  IF ~hm_contains_key(default_headers, name)
             THEN <<Line("request_header", name, value)>> \o rest
             ELSE rest

(* display_request_info: the lines of the verbose request trace *)
display_request_info(cfg, default_headers, request_headers) ==
    IF ~cfg.verbose THEN <<>>
    ELSE <<Line("request_line", cfg.method, "url")>>
         \o default_header_lines(default_headers)
         \o request_header_lines(request_headers, default_headers)
         \o <<Line("blank", "", "")>>

-----------------------------------------------------------------------------
(* Values of the retry engine *)

NoValue == [kind |-> "none", status |-> 0, error |-> "", attempt |-> 0]
Response(status, attempt) ==
    [kind |-> "response", status |-> status, error |-> "", attempt |-> attempt]
Failure(error, attempt) ==
    [kind |-> "error", status |-> 0, error |-> error, attempt |-> attempt]

(* u32 addition of a release build, (a + b) mod 2^32, on 16-bit halves *)
wrapping_add(a, b) ==
    LET lo == (a % U16) + (b % U16)
        hi == (a \div U16) + (b \div U16) + (lo \div U16)
    IN  (hi % U16) * U16 + (lo % U16)

max_attempts_of(cfg) == wrapping_add(cfg.retry, 1)

(* a loop test that allows one attempt too many *)
attempts_left_inclusive(attempt, max) == attempt <= max

(* the loop's test current_attempt < max_attempts *)
attempts_left(attempt, max) == attempt < max

(* an execute_request that never takes the dry-run return *)
dry_run_ignored(cfg) == FALSE

(* execute_request's test of config.dry_run *)
dry_run_set(cfg) == cfg.dry_run

Last(seq) == seq[Len(seq)]

Pending == [done |-> FALSE, ok |-> FALSE, error |-> ""]
Ok == [done |-> TRUE, ok |-> TRUE, error |-> ""]
Err(error) == [done |-> TRUE, ok |-> FALSE, error |-> error]

NoFile == [written |-> FALSE, data |-> NoValue]
NoContext == [default_headers |-> <<>>, request_headers |-> <<>>]

(* display_response_info: the status line (response headers are not modelled) *)
display_response_info(response, cfg) ==
    IF ~cfg.verbose THEN <<>>
    ELSE <<Line("status_line", "", ToString(response.status)),
           Line("blank", "", "")>>

(* an output_response where silent also suppresses the file *)
output_response_silent_first(processed_response, cfg, created) ==
    IF cfg.silent THEN [lines |-> <<>>, file |-> NoFile, result |-> Ok]
    ELSE IF cfg.output.some
    THEN IF created
         THEN [lines |-> <<>>, file |-> [written |-> TRUE, data |-> processed_response],
               result |-> Ok]
         ELSE [lines |-> <<>>, file |-> NoFile, result |-> Err("file")]
    ELSE [lines |-> <<Line("body", ToString(processed_response.attempt),
                           ToString(processed_response.status))>>,
          file |-> NoFile, result |-> Ok]

(* output_response: created is whether File::create and write_all succeed *)
output_response(processed_response, cfg, created) ==
    IF cfg.output.some
    THEN IF created
         THEN [lines |-> <<>>, file |-> [written |-> TRUE, data |-> processed_response],
               result |-> Ok]
         ELSE [lines |-> <<>>, file |-> NoFile, result |-> Err("file")]
    ELSE IF ~cfg.silent
    THEN [lines |-> <<Line("body", ToString(processed_response.attempt),
                           ToString(processed_response.status))>>,
          file |-> NoFile, result |-> Ok]
    ELSE [lines |-> <<>>, file |-> NoFile, result |-> Ok]

-----------------------------------------------------------------------------
(* The inputs of execute_request *)

Statuses == {200, 404, 408, 429, 503}
TransportErrors == {"connect", "timeout"}

Methods == {"GET", "OPTIONS", "get", "GE T"}

HeaderLists ==
    { None,
      Some(<<HeaderEntry(TRUE, "Authorization", " Bearer tok")>>),
      Some(<<HeaderEntry(FALSE, "NoColonHere", ""),
             HeaderEntry(TRUE, "X-Test", " 1 "),
             HeaderEntry(TRUE, "Bad Name", "x")>>) }

Configs ==
    [ method : Methods,
      url_valid : BOOLEAN,
      verbose : BOOLEAN,
      dry_run : BOOLEAN,
      retry : 0..MaxRetries,
      retry_delay : 1..MaxDelay,
      silent : BOOLEAN,
      output : {None, Some("out.txt")},
      basic_auth : {None, Some([user |-> "u", pass |-> "p"])},
      headers : HeaderLists ]

-----------------------------------------------------------------------------
(* main: the configuration handed to execute_request.  Of Config the model   *)
(* keeps the fields whose command-line option has a default value, and url.  *)

unwrap_or(option, default) == IF option.some THEN option.value ELSE default

(* Args::parse: clap fills the default of an option that is not passed *)
parse(line) ==
    [ config |-> line.config,
      method |-> unwrap_or(line.method, DEFAULT_METHOD),
      retry |-> unwrap_or(line.retry, DEFAULT_RETRY_COUNT),
      retry_delay |-> unwrap_or(line.retry_delay, DEFAULT_RETRY_DELAY),
      timeout |-> unwrap_or(line.timeout, DEFAULT_TIMEOUT_SECS),
      url |-> line.url ]

config_default ==
    [ method |-> DEFAULT_METHOD,
      retry |-> DEFAULT_RETRY_COUNT,
      retry_delay |-> DEFAULT_RETRY_DELAY,
      timeout |-> DEFAULT_TIMEOUT_SECS,
      url |-> "" ]

create_config_from_preset(p) ==
    [ method |-> unwrap_or(p.method, DEFAULT_METHOD),
      retry |-> unwrap_or(p.retry, DEFAULT_RETRY_COUNT),
      retry_delay |-> unwrap_or(p.retry_delay, DEFAULT_RETRY_DELAY),
      timeout |-> unwrap_or(p.timeout, DEFAULT_TIMEOUT_SECS),
      url |-> unwrap_or(p.url, "") ]

apply_request_config(cfg, a) ==
    [cfg EXCEPT !.method = IF a.method # DEFAULT_METHOD THEN a.method ELSE @,
                !.url = IF a.url.some THEN a.url.value ELSE @,
                !.timeout = IF a.timeout # DEFAULT_TIMEOUT_SECS THEN a.timeout ELSE @]

apply_retry_config(cfg, a) ==
    [cfg EXCEPT !.retry = IF a.retry # DEFAULT_RETRY_COUNT THEN a.retry ELSE @,
                !.retry_delay = IF a.retry_delay # DEFAULT_RETRY_DELAY
                                THEN a.retry_delay ELSE @]

apply_args_to_config(cfg, a) ==
    apply_retry_config(apply_request_config(cfg, a), a)

validate_config(cfg) == cfg.url # ""

CommandLines ==
    [ config : BOOLEAN,
      method : {None, Some("GET"), Some("POST"), Some("PUT")},
      retry : {None, Some(0), Some(3)},
      retry_delay : {None, Some(1), Some(2)},
      timeout : {None, Some(30), Some(5)},
      url : {None, Some("http://cli")} ]

(* What get_preset finds: no preset (an error), or a preset whose fields     *)
(* are each set or not.                                                      *)
Presets ==
    {None} \cup
    { Some(p) : p \in [ method : {None, Some("POST")},
                        retry : {None, Some(5)},
                        retry_delay : {None, Some(3)},
                        timeout : {None, Some(10)},
                        url : {None, Some("http://preset")} ] }

NoArgs == parse([config |-> FALSE, method |-> None, retry |-> None,
                 retry_delay |-> None, timeout |-> None, url |-> None])

InitMain ==
    /\ cli \in CommandLines
    /\ preset \in IF cli.config THEN Presets ELSE {None}
    /\ args = NoArgs
    /\ merged = config_default
    /\ mpc = "parse"

ParseArgs ==
    /\ mpc = "parse"
    /\ args' = parse(cli)
    /\ mpc' = "load"
    /\ UNCHANGED <<cli, preset, merged>>
    /\ UNCHANGED <<request_vars, status_vars, json_vars, format_vars, bound_vars>>

(* load_config_if_specified *)
LoadConfigIfSpecified ==
    /\ mpc = "load"
    /\ IF args.config
       THEN IF preset.some
            THEN /\ merged' = create_config_from_preset(preset.value)
                 /\ mpc' = "apply"
            ELSE /\ mpc' = "no_preset"
                 /\ UNCHANGED merged
       ELSE /\ merged' = config_default
            /\ mpc' = "apply"
    /\ UNCHANGED <<cli, args, preset>>
    /\ UNCHANGED <<request_vars, status_vars, json_vars, format_vars, bound_vars>>

ApplyArgsToConfig ==
    /\ mpc = "apply"
    /\ merged' = apply_args_to_config(merged, args)
    /\ mpc' = "validate"
    /\ UNCHANGED <<cli, args, preset>>
    /\ UNCHANGED <<request_vars, status_vars, json_vars, format_vars, bound_vars>>

(* validate_config, then execute_request(config) *)
ValidateConfig ==
    /\ mpc = "validate"
    /\ mpc' = IF validate_config(merged) THEN "execute" ELSE "missing_url"
    /\ UNCHANGED <<cli, args, preset, merged>>
    /\ UNCHANGED <<request_vars, status_vars, json_vars, format_vars, bound_vars>>

-----------------------------------------------------------------------------
(* extract_json_path.  A string is a sequence of one-character strings.  A   *)
(* serde_json Value is a record: t its kind, s the text of a number, a       *)
(* string or a boolean, v the <<key, value>> entries of an object (one per   *)
(* key) or of an array (in order, under the empty key).                      *)

JNull == [t |-> "null", s |-> <<>>, v |-> <<>>]
JBool(literal) == [t |-> "bool", s |-> literal, v |-> <<>>]
JNum(literal) == [t |-> "num", s |-> literal, v |-> <<>>]
JStr(str) == [t |-> "str", s |-> str, v |-> <<>>]
JArr(elements) ==
    [t |-> "arr", s |-> <<>>, v |-> [i \in DOMAIN elements |-> <<<<>>, elements[i]>>]]
JObj(entries) == [t |-> "obj", s |-> <<>>, v |-> entries]

(* Value::get(&str): the value of a key of an object *)
get_key(value, key) ==
    IF value.t = "obj" /\ \E i \in DOMAIN value.v : value.v[i][1] = key
    THEN Some(value.v[CHOOSE i \in DOMAIN value.v : value.v[i][1] = key][2])
    ELSE None

(* Value::get(usize): the element of an array at a 0-based index *)
get_index(value, index) ==
    IF value.t = "arr" /\ index < Len(value.v)
    THEN Some(value.v[index + 1][2])
    ELSE None

is_whitespace(c) == c = " "

RECURSIVE trim_start(_)
trim_start(str) ==
    IF str # <<>> /\ is_whitespace(Head(str)) THEN trim_start(Tail(str)) ELSE str

RECURSIVE trim_end(_)
trim_end(str) ==
    IF str # <<>> /\ is_whitespace(str[Len(str)])
    THEN trim_end(SubSeq(str, 1, Len(str) - 1))
    ELSE str

trim(str) == trim_end(trim_start(str))

strip_prefix(str, c) ==
    IF str # <<>> /\ Head(str) = c THEN Some(Tail(str)) ELSE None

(* str::find(char): the 0-based position of the first occurrence *)
find(str, c) ==
    IF \E i \in DOMAIN str : str[i] = c
    THEN Some((CHOOSE i \in DOMAIN str :
                  str[i] = c /\ \A j \in 1..(i - 1) : str[j] # c) - 1)
    ELSE None

(* str::split(char): the pieces between the separators, empty ones included *)
RECURSIVE split(_, _)
split(str, c) ==
    LET at == find(str, c)
    IN  IF at.some
        THEN <<SubSeq(str, 1, at.value)>> \o split(SubSeq(str, at.value + 2, Len(str)), c)
        ELSE <<str>>

RECURSIVE filter_non_empty(_)
filter_non_empty(pieces) ==
    IF pieces = <<>> THEN <<>>
    ELSE IF Head(pieces) # <<>>
    THEN <<Head(pieces)>> \o filter_non_empty(Tail(pieces))
    ELSE filter_non_empty(Tail(pieces))

Digits == {"0", "1", "2", "3", "4", "5", "6", "7", "8", "9"}

digit_value(c) ==
    CASE c = "0" -> 0 [] c = "1" -> 1 [] c = "2" -> 2 [] c = "3" -> 3
      [] c = "4" -> 4 [] c = "5" -> 5 [] c = "6" -> 6 [] c = "7" -> 7
      [] c = "8" -> 8 [] c = "9" -> 9

RECURSIVE decimal(_)
decimal(digits) ==
    IF digits = <<>> THEN 0
    ELSE decimal(SubSeq(digits, 1, Len(digits) - 1)) * 10 + digit_value(digits[Len(digits)])

(* str::parse::<usize>: decimal digits after an optional '+'; the strings of *)
(* the model are too short to exceed usize                                   *)
parse_usize(str) ==
    LET digits == IF str # <<>> /\ Head(str) = "+" THEN Tail(str) ELSE str
    IN  IF digits # <<>> /\ \A i \in DOMAIN digits : digits[i] \in Digits
        THEN Some(decimal(digits))
        ELSE None

unwrap_or_null(option) == IF option.some THEN option.value ELSE JNull

JsonOk(value) == [ok |-> TRUE, value |-> value]
JsonErr == [ok |-> FALSE, value |-> JNull]

(* a path step that reports a missing field as an error *)
process_json_path_part_strict(value, part) ==
    IF get_key(value, part).some THEN JsonOk(get_key(value, part).value) ELSE JsonErr

process_json_path_part(value, part) ==
    LET bracket_pos == find(part, "[")
        field_name == SubSeq(part, 1, bracket_pos.value)
        index_part == SubSeq(part, bracket_pos.value + 2, Len(part))
        close_bracket == find(index_part, "]")
        index_str == SubSeq(index_part, 1, close_bracket.value)
        index == parse_usize(index_str)
        target == IF field_name # <<>>
                  THEN unwrap_or_null(get_key(value, field_name))
                  ELSE value
    IN  IF bracket_pos.some /\ close_bracket.some /\ index.some
        THEN JsonOk(unwrap_or_null(get_index(target, index.value)))
        ELSE JsonOk(unwrap_or_null(get_key(value, part)))

(* The loop of extract_json_path: the value after each part, up to the first *)
(* part that fails                                                           *)
RECURSIVE apply_parts(_, _)
apply_parts(value, parts) ==
    IF parts = <<>> THEN [ok |-> TRUE, values |-> <<>>]
    ELSE LET step == process_json_path_part(value, Head(parts))
         IN  IF ~step.ok THEN [ok |-> FALSE, values |-> <<>>]
             ELSE LET rest == apply_parts(step.value, Tail(parts))
                  IN  [ok |-> rest.ok, values |-> <<step.value>> \o rest.values]

JSON_PATH_ROOT == <<".">>

path_parts(str) ==
    LET trimmed == trim(str)
        stripped == unwrap_or(strip_prefix(trimmed, "."), trimmed)
    IN  filter_non_empty(split(stripped, "."))

(* extract_json_path: ok and value are the Result; parts and values are the  *)
(* parts of the path and the value before and after each of them             *)
extract_json_path(value, str) ==
    IF trim(str) = JSON_PATH_ROOT
    THEN [ok |-> TRUE, value |-> value, parts |-> <<>>, values |-> <<value>>]
    ELSE LET parts == path_parts(str)
             run == apply_parts(value, parts)
         IN  IF run.ok
             THEN [ok |-> TRUE, value |-> Last(<<value>> \o run.values),
                   parts |-> parts, values |-> <<value>> \o run.values]
             ELSE [ok |-> FALSE, value |-> JNull, parts |-> parts,
                   values |-> <<value>> \o run.values]

NotExtracted == [done |-> FALSE, result |-> JsonErr]

(* The bodies and the paths of the model *)
MaxPathLen == 5

PathChars == {"a", ".", "[", "]", "1", " "}

Paths == UNION {[1..n -> PathChars] : n \in 0..MaxPathLen}

Bodies ==
    { JNull,
      JStr(<<"t", "e", "x", "t">>),
      JObj(<<>>),
      JObj(<< <<<<"a">>, JNum(<<"1">>)>> >>),
      JObj(<< <<<<"a">>, JObj(<< <<<<"a">>, JArr(<<JNum(<<"1", "0">>), JNum(<<"1", "1">>)>>)>> >>)>> >>),
      JObj(<< <<<<"a">>, JArr(<<JObj(<< <<<<"a">>, JNum(<<"5">>)>> >>)>>)>>,
              <<<<"a", "[", "a", "]">>, JNum(<<"3">>)>> >>),
      JArr(<<JNum(<<"7">>), JArr(<<JNum(<<"8">>), JNum(<<"9">>)>>)>>) }

InitJson ==
    /\ json_arg \in Bodies
    /\ path_arg \in Paths
    /\ extracted = NotExtracted

ExtractJsonPath ==
    /\ ~extracted.done
    /\ extracted' = [done |-> TRUE, result |-> extract_json_path(json_arg, path_arg)]
    /\ UNCHANGED <<json_arg, path_arg>>
    /\ UNCHANGED <<request_vars, main_vars, status_vars, format_vars, bound_vars>>

-----------------------------------------------------------------------------
(* format_response_body.  serde_json::from_str is a recursive descent over   *)
(* the text; a position is a 1-based index, and a parse returns the value    *)
(* and the position after it.  The parser covers the productions whose       *)
(* characters occur in the bodies of the model: it has no '-', fraction,     *)
(* exponent or escape, and its numbers are short enough to be a u64.         *)

ParseOk(value, next) == [ok |-> TRUE, value |-> value, next |-> next]
ParseErr == [ok |-> FALSE, value |-> JNull, next |-> 0]

json_whitespace(c) == c \in {" ", "\n", "\t", "\r"}

(* Deserializer::parse_whitespace: the first position at or after i that     *)
(* holds no whitespace, Len(text) + 1 at the end of the text                 *)
parse_whitespace(text, i) ==
    CHOOSE j \in i..(Len(text) + 1) :
        /\ j = Len(text) + 1 \/ ~json_whitespace(text[j])
        /\ \A k \in i..(j - 1) : json_whitespace(text[k])

(* Deserializer::parse_ident: the rest of null, true or false *)
parse_ident(text, i, ident, value) ==
    IF i + Len(ident) - 1 <= Len(text) /\ SubSeq(text, i, i + Len(ident) - 1) = ident
    THEN ParseOk(value, i + Len(ident))
    ELSE ParseErr

(* Deserializer::parse_integer: 0, or a run of digits that starts with 1..9; *)
(* a digit after a leading 0 is an invalid number                            *)
parse_integer(text, i) ==
    LET stop == CHOOSE j \in (i + 1)..(Len(text) + 1) :
                    /\ j = Len(text) + 1 \/ text[j] \notin Digits
                    /\ \A k \in (i + 1)..(j - 1) : text[k] \in Digits
    IN  IF text[i] = "0"
        THEN IF stop = i + 1 THEN ParseOk(JNum(<<"0">>), stop) ELSE ParseErr
        ELSE ParseOk(JNum(SubSeq(text, i, stop - 1)), stop)

(* Deserializer::parse_str from the position after the opening quote: the    *)
(* characters up to the closing quote, none of them a control character      *)
parse_str(text, i) ==
    LET closed == \E q \in i..Len(text) : text[q] = "\""
        quote == CHOOSE q \in i..Len(text) :
                     text[q] = "\"" /\ \A k \in i..(q - 1) : text[k] # "\""
    IN  IF closed /\ \A k \in i..(quote - 1) : text[k] \notin {"\n", "\t", "\r"}
        THEN ParseOk(JStr(SubSeq(text, i, quote - 1)), quote + 1)
        ELSE ParseErr

(* Map::insert: the value of a key that is present is replaced.  The objects *)
(* of the model list their keys in ascending order, where the order of the   *)
(* map is the order of insertion.                                            *)
map_insert(entries, key, value) ==
    IF \E i \in DOMAIN entries : entries[i][1] = key
    THEN [i \in DOMAIN entries |->
             IF entries[i][1] = key THEN <<key, value>> ELSE entries[i]]
    ELSE Append(entries, <<key, value>>)

RECURSIVE parse_value(_, _)
RECURSIVE parse_seq(_, _, _)
RECURSIVE parse_map(_, _, _)

(* Deserializer::deserialize_any: one value, after leading whitespace *)
parse_value(text, from) ==
    LET i == parse_whitespace(text, from)
        after_open == parse_whitespace(text, i + 1)
    IN  IF i > Len(text) THEN ParseErr
        ELSE CASE text[i] = "n" -> parse_ident(text, i, <<"n", "u", "l", "l">>, JNull)
               [] text[i] = "t" ->
                      parse_ident(text, i, <<"t", "r", "u", "e">>,
                                  JBool(<<"t", "r", "u", "e">>))
               [] text[i] = "f" ->
                      parse_ident(text, i, <<"f", "a", "l", "s", "e">>,
                                  JBool(<<"f", "a", "l", "s", "e">>))
               [] text[i] \in Digits -> parse_integer(text, i)
               [] text[i] = "\"" -> parse_str(text, i + 1)
               [] text[i] = "[" ->
                      IF after_open <= Len(text) /\ text[after_open] = "]"
                      THEN ParseOk(JArr(<<>>), after_open + 1)
                      ELSE parse_seq(text, i + 1, <<>>)
               [] text[i] = "{" ->
                      IF after_open <= Len(text) /\ text[after_open] = "}"
                      THEN ParseOk(JObj(<<>>), after_open + 1)
                      ELSE parse_map(text, i + 1, <<>>)
               [] OTHER -> ParseErr

(* SeqAccess: an element, then ',' and the next element, or ']' *)
parse_seq(text, from, elements) ==
    LET element == parse_value(text, from)
        i == parse_whitespace(text, element.next)
    IN  IF ~element.ok \/ i > Len(text) THEN ParseErr
        ELSE IF text[i] = ","
        THEN parse_seq(text, i + 1, Append(elements, element.value))
        ELSE IF text[i] = "]"
        THEN ParseOk(JArr(Append(elements, element.value)), i + 1)
        ELSE ParseErr

(* MapAccess: a string key, ':', a value, then ',' and the next member, or   *)
(* '}'                                                                       *)
parse_map(text, from, entries) ==
    LET i == parse_whitespace(text, from)
        key == parse_str(text, i + 1)
        colon == parse_whitespace(text, key.next)
        member == parse_value(text, colon + 1)
        j == parse_whitespace(text, member.next)
        inserted == map_insert(entries, key.value.s, member.value)
    IN  IF i > Len(text) \/ text[i] # "\"" THEN ParseErr
        ELSE IF ~key.ok \/ colon > Len(text) \/ text[colon] # ":" THEN ParseErr
        ELSE IF ~member.ok \/ j > Len(text) THEN ParseErr
        ELSE IF text[j] = "," THEN parse_map(text, j + 1, inserted)
        ELSE IF text[j] = "}" THEN ParseOk(JObj(inserted), j + 1)
        ELSE ParseErr

(* serde_json::from_str: one value, then only whitespace up to the end *)
from_str(text) ==
    LET parsed == parse_value(text, 1)
    IN  IF parsed.ok /\ parse_whitespace(text, parsed.next) > Len(text)
        THEN JsonOk(parsed.value)
        ELSE JsonErr

quoted(str) == <<"\"">> \o str \o <<"\"">>

RECURSIVE to_string(_)
RECURSIVE compact_entries(_, _)

(* CompactFormatter: the entries of an array or an object, comma-separated *)
compact_entries(entries, keyed) ==
    IF entries = <<>> THEN <<>>
    ELSE (IF keyed THEN quoted(Head(entries)[1]) \o <<":">> ELSE <<>>)
         \o to_string(Head(entries)[2])
         \o (IF Len(entries) > 1 THEN <<",">> ELSE <<>>)
         \o compact_entries(Tail(entries), keyed)

(* serde_json::to_string *)
to_string(value) ==
    CASE value.t = "null" -> <<"n", "u", "l", "l">>
      [] value.t \in {"bool", "num"} -> value.s
      [] value.t = "str" -> quoted(value.s)
      [] value.t = "arr" -> <<"[">> \o compact_entries(value.v, FALSE) \o <<"]">>
      [] value.t = "obj" -> <<"{">> \o compact_entries(value.v, TRUE) \o <<"}">>

(* PrettyFormatter: two spaces for each level of nesting *)
indent(level) == [i \in 1..(2 * level) |-> " "]

RECURSIVE pretty(_, _)
RECURSIVE pretty_entries(_, _, _)

(* PrettyFormatter: each entry on a line of its own *)
pretty_entries(entries, keyed, level) ==
    IF entries = <<>> THEN <<>>
    ELSE indent(level)
         \o (IF keyed THEN quoted(Head(entries)[1]) \o <<":", " ">> ELSE <<>>)
         \o pretty(Head(entries)[2], level)
         \o (IF Len(entries) > 1 THEN <<",">> ELSE <<>>)
         \o <<"\n">>
         \o pretty_entries(Tail(entries), keyed, level)

pretty(value, level) ==
    CASE value.t \in {"arr", "obj"} /\ value.v = <<>> -> to_string(value)
      [] value.t = "arr" /\ value.v # <<>> ->
             <<"[", "\n">> \o pretty_entries(value.v, FALSE, level + 1)
                           \o indent(level) \o <<"]">>
      [] value.t = "obj" /\ value.v # <<>> ->
             <<"{", "\n">> \o pretty_entries(value.v, TRUE, level + 1)
                           \o indent(level) \o <<"}">>
      [] OTHER -> to_string(value)

(* serde_json::to_string_pretty *)
to_string_pretty(value) == pretty(value, 0)

FormatOk(text) == [ok |-> TRUE, text |-> text]
FormatErr == [ok |-> FALSE, text |-> <<>>]

(* a pipeline that trims a body it cannot parse *)
format_response_body_trimmed(body, cfg) ==
    LET json_value == from_str(body)
        filtered == IF cfg.json_filter.some
                    THEN extract_json_path(json_value.value, cfg.json_filter.value)
                    ELSE [ok |-> TRUE, value |-> json_value.value]
    IN  IF ~json_value.ok THEN FormatOk(trim(body))
        ELSE IF ~filtered.ok THEN FormatErr
        ELSE IF cfg.pretty_json THEN FormatOk(to_string_pretty(filtered.value))
        ELSE FormatOk(to_string(filtered.value))

format_response_body(body, cfg) ==
    LET json_value == from_str(body)
        filtered == IF cfg.json_filter.some
                    THEN extract_json_path(json_value.value, cfg.json_filter.value)
                    ELSE [ok |-> TRUE, value |-> json_value.value]
    IN  IF ~json_value.ok THEN FormatOk(body)
        ELSE IF ~filtered.ok THEN FormatErr
        ELSE IF cfg.pretty_json THEN FormatOk(to_string_pretty(filtered.value))
        ELSE FormatOk(to_string(filtered.value))

NotFormatted == [done |-> FALSE, result |-> FormatErr]

(* The bodies of the model: every text of at most MaxBodyLen characters of   *)
(* BodyChars, and some longer ones                                           *)
MaxBodyLen == 4

BodyChars == {"[", "]", "1", ",", " ", "h", "\""}

LongBodies ==
    { <<"h", "e", "l", "l", "o", " ", "w", "o", "r", "l", "d">>,
      <<"{", "\"", "a", "\"", ":", "[", "1", ",", " ", "0", "]", "}">>,
      <<"{", "\"", "a", "\"", ":", "1", ",", "\"", "b", "\"", ":", "[", "2", ",", "3", "]", "}">>,
      <<" ", "[", "1", "]", "\n">>,
      <<"0", "1">>,
      <<"n", "u", "l", "l">>,
      <<"n", "u", "l">>,
      <<"t", "r", "u", "e", " ">>,
      <<"{", "\"", "a", "\"", ":", "1", ",", "}">>,
      <<"{", "a", ":", "1", "}">>,
      <<"\"", "a", "\n", "b", "\"">>,
      <<"{", "\"", "a", "\"", ":", "{", "}", "}">> }

ResponseBodies == UNION {[1..n -> BodyChars] : n \in 0..MaxBodyLen} \cup LongBodies

FormatConfigs ==
    [ pretty_json : BOOLEAN,
      json_filter : {None, Some(<<".">>), Some(<<"[", "0", "]">>),
                     Some(<<"a">>), Some(<<"a", "[", "1", "]">>)} ]

InitFormat ==
    /\ body_arg \in ResponseBodies
    /\ format_config \in FormatConfigs
    /\ formatted = NotFormatted

FormatResponseBody ==
    /\ ~formatted.done
    /\ formatted' = [done |-> TRUE,
                     result |-> format_response_body(body_arg, format_config)]
    /\ UNCHANGED <<body_arg, format_config>>
    /\ UNCHANGED <<request_vars, main_vars, status_vars, json_vars, bound_vars>>

-----------------------------------------------------------------------------
(* The attempt bound of execute_request_with_retry for every u32 retry.  A   *)
(* u32 is a record of two 16-bit halves, hi * 2^16 + lo.                     *)

u32(hi, lo) == [hi |-> hi, lo |-> lo]
u32_of(n) == u32(n \div U16, n % U16)
u32_MAX == u32(U16 - 1, U16 - 1)

(* u32::wrapping_add: the sum modulo 2^32, what + does without overflow      *)
(* checks                                                                    *)
u32_wrapping_add(a, b) ==
    LET lo == a.lo + b.lo
        hi == a.hi + b.hi + (lo \div U16)
    IN  u32(hi % U16, lo % U16)

(* u32::checked_add(a, b).is_none(): + panics here with overflow checks *)
u32_add_overflows(a, b) == a.hi + b.hi + ((a.lo + b.lo) \div U16) >= U16

u32_lt(a, b) == a.hi < b.hi \/ (a.hi = b.hi /\ a.lo < b.lo)

NoBound == [pc |-> "entry", max_attempts |-> u32_of(0), current_attempt |-> u32_of(0),
            outcome |-> NoValue]

RetryHalves == (0..63) \cup ((U16 - 64)..(U16 - 1))

RetryCounts == {u32(hi, lo) : hi \in {0, 1, U16 - 1}, lo \in RetryHalves}

InitBound ==
    /\ retry_arg \in RetryCounts
    /\ overflow_checks \in BOOLEAN
    /\ bound = NoBound

(* let max_attempts: u32 = config.retry + 1 *)
ComputeMaxAttempts ==
    /\ bound.pc = "entry"
    /\ bound' = IF overflow_checks /\ u32_add_overflows(retry_arg, u32_of(1))
                THEN [bound EXCEPT !.pc = "panicked"]
                ELSE [bound EXCEPT !.pc = "loop",
                                   !.max_attempts = u32_wrapping_add(retry_arg, u32_of(1))]
    /\ UNCHANGED <<retry_arg, overflow_checks>>
    /\ UNCHANGED <<request_vars, main_vars, status_vars, json_vars, format_vars>>

(* The first turn of the loop: current_attempt += 1, client.execute and the  *)
(* match on what it returned                                                 *)
FirstTurn ==
    /\ bound.pc = "loop"
    /\ \E outcome \in {Response(s, 1) : s \in Statuses}
                      \cup {Failure(e, 1) : e \in TransportErrors} :
          LET attempt == u32_wrapping_add(bound.current_attempt, u32_of(1))
              again == /\ outcome.kind = "response" => should_retry_for_status(outcome.status)
                       /\ u32_lt(attempt, bound.max_attempts)
          IN  bound' = [bound EXCEPT !.pc = IF again THEN "backoff" ELSE "returned",
                                     !.current_attempt = attempt,
                                     !.outcome = outcome]
    /\ UNCHANGED <<retry_arg, overflow_checks>>
    /\ UNCHANGED <<request_vars, main_vars, status_vars, json_vars, format_vars>>

-----------------------------------------------------------------------------
(* The variables of a state machine while another one runs *)

MainIdle ==
    /\ cli = [config |-> FALSE, method |-> None, retry |-> None,
              retry_delay |-> None, timeout |-> None, url |-> None]
    /\ preset = None
    /\ args = NoArgs
    /\ merged = config_default
    /\ mpc = "idle"

JsonIdle ==
    /\ json_arg = JNull
    /\ path_arg = <<>>
    /\ extracted = NotExtracted

RequestIdle ==
    /\ config = [method |-> DEFAULT_METHOD, url_valid |-> TRUE, verbose |-> FALSE,
                 dry_run |-> FALSE, retry |-> DEFAULT_RETRY_COUNT,
                 retry_delay |-> DEFAULT_RETRY_DELAY, silent |-> FALSE,
                 output |-> None, basic_auth |-> None, headers |-> None]
    /\ pc = "idle"
    /\ current_attempt = 0
    /\ max_attempts = 0
    /\ outcomes = <<>>
    /\ sleeps = <<>>
    /\ stdout = <<>>
    /\ file = NoFile
    /\ context = NoContext
    /\ rendered = NoValue
    /\ engine = NoValue
    /\ result = Pending

FormatIdle ==
    /\ body_arg = <<>>
    /\ format_config = [pretty_json |-> FALSE, json_filter |-> None]
    /\ formatted = NotFormatted

BoundIdle ==
    /\ retry_arg = u32_of(DEFAULT_RETRY_COUNT)
    /\ overflow_checks = FALSE
    /\ bound = NoBound

NoVerdict == [known |-> FALSE, retry |-> FALSE]

StatusIdle ==
    /\ status_arg = 0
    /\ verdict = NoVerdict

-----------------------------------------------------------------------------
(* execute_request *)

Init ==
    /\ config \in Configs
    /\ pc = "start"
    /\ current_attempt = 0
    /\ max_attempts = 0
    /\ outcomes = <<>>
    /\ sleeps = <<>>
    /\ stdout = <<>>
    /\ file = NoFile
    /\ context = NoContext
    /\ rendered = NoValue
    /\ engine = NoValue
    /\ result = Pending
    /\ MainIdle
    /\ StatusIdle
    /\ JsonIdle
    /\ FormatIdle
    /\ BoundIdle

(* create_request_context: create_http_client, then build_request *)
CreateRequestContext ==
    /\ pc = "start"
    /\ LET request == build_request(config)
       IN  IF request.ok
           THEN /\ context' = [default_headers |-> create_http_client(config),
                               request_headers |-> request.headers]
                /\ pc' = "context"
                /\ UNCHANGED result
           ELSE /\ result' = Err(request.error)
                /\ pc' = "done"
                /\ UNCHANGED context
    /\ UNCHANGED <<config, current_attempt, max_attempts, outcomes, sleeps,
                   stdout, file, rendered, engine>>
    /\ UNCHANGED <<main_vars, status_vars, json_vars, format_vars, bound_vars>>

(* display_request_info, the dry-run return, and the entry of                *)
(* execute_request_with_retry                                                *)
DisplayRequestInfo ==
    /\ pc = "context"
    /\ stdout' = stdout \o display_request_info(config, context.default_headers,
                                                context.request_headers)
    /\ IF dry_run_set(config)
       THEN /\ result' = Ok
            /\ pc' = "done"
            /\ UNCHANGED <<current_attempt, max_attempts>>
       ELSE /\ current_attempt' = 0
            /\ max_attempts' = max_attempts_of(config)
            /\ pc' = "attempting"
            /\ UNCHANGED result
    /\ UNCHANGED <<config, outcomes, sleeps, file, context, rendered, engine>>
    /\ UNCHANGED <<main_vars, status_vars, json_vars, format_vars, bound_vars>>

(* One turn of the loop up to the decision: the attempt counter, the retry   *)
(* banner, client.execute and the match on what it returned.  try_clone      *)
(* cannot fail here: apply_request_body only builds buffered bodies.         *)
ClientExecute ==
    /\ pc = "attempting"
    /\ current_attempt' = current_attempt + 1
    /\ stdout' = IF config.verbose /\ current_attempt' > 1
                 THEN Append(stdout, Line("retry_attempt", "",
                                          ToString(saturating_sub(current_attempt', 1))))
                 ELSE stdout
    /\ \E outcome \in {Response(s, current_attempt') : s \in Statuses}
                      \cup {Failure(e, current_attempt') : e \in TransportErrors} :
          /\ outcomes' = Append(outcomes, outcome)
          /\ IF outcome.kind = "response"
             THEN /\ pc' = IF should_retry_for_status(outcome.status)
                              /\ attempts_left(current_attempt', max_attempts)
                           THEN "retry_status"
                           ELSE "received"
                  /\ UNCHANGED <<engine, result>>
             ELSE IF attempts_left(current_attempt', max_attempts)
                  THEN /\ pc' = "retry_error"
                       /\ UNCHANGED <<engine, result>>
                  ELSE /\ engine' = outcome
                       /\ result' = Err(outcome.error)
                       /\ pc' = "done"
    /\ UNCHANGED <<config, max_attempts, sleeps, file, context, rendered>>
    /\ UNCHANGED <<main_vars, status_vars, json_vars, format_vars, bound_vars>>

(* handle_retry_delay, then continue *)
HandleRetryDelay ==
    /\ pc = "retry_status"
    /\ stdout' = IF config.verbose
                 THEN Append(stdout, Line("http_retry", "",
                                          ToString(Last(outcomes).status)))
                 ELSE stdout
    /\ sleeps' = Append(sleeps, handle_retry_delay(config, current_attempt))
    /\ pc' = "attempting"
    /\ UNCHANGED <<config, current_attempt, max_attempts, outcomes, file,
                   context, rendered, engine, result>>
    /\ UNCHANGED <<main_vars, status_vars, json_vars, format_vars, bound_vars>>

(* handle_request_error_retry, then continue *)
HandleRequestErrorRetry ==
    /\ pc = "retry_error"
    /\ stdout' = IF config.verbose
                 THEN Append(stdout, Line("error_retry", "", Last(outcomes).error))
                 ELSE stdout
    /\ sleeps' = Append(sleeps, handle_request_error_retry(config, current_attempt))
    /\ pc' = "attempting"
    /\ UNCHANGED <<config, current_attempt, max_attempts, outcomes, file,
                   context, rendered, engine, result>>
    /\ UNCHANGED <<main_vars, status_vars, json_vars, format_vars, bound_vars>>

(* handle_successful_response: response.text() reads the body or fails, and  *)
(* the error leaves execute_request through the ? operators                  *)
HandleSuccessfulResponse ==
    /\ pc = "received"
    /\ \E readable \in BOOLEAN :
          IF readable
          THEN /\ engine' = Last(outcomes)
               /\ pc' = "respond"
               /\ UNCHANGED result
          ELSE /\ engine' = Failure("body", current_attempt)
               /\ result' = Err("body")
               /\ pc' = "done"
    /\ UNCHANGED <<config, current_attempt, max_attempts, outcomes, sleeps,
                   stdout, file, context, rendered>>
    /\ UNCHANGED <<main_vars, status_vars, json_vars, format_vars, bound_vars>>

(* handle_response: display_response_info, format_response_body and          *)
(* output_response                                                           *)
HandleResponse ==
    /\ pc = "respond"
    /\ \E created \in BOOLEAN :
          LET out == output_response(engine, config, created)
          IN  /\ stdout' = stdout \o display_response_info(engine, config) \o out.lines
              /\ file' = out.file
              /\ rendered' = engine
              /\ result' = out.result
    /\ pc' = "done"
    /\ UNCHANGED <<config, current_attempt, max_attempts, outcomes, sleeps,
                   context, engine>>
    /\ UNCHANGED <<main_vars, status_vars, json_vars, format_vars, bound_vars>>

Next ==
    \/ CreateRequestContext
    \/ DisplayRequestInfo
    \/ ClientExecute
    \/ HandleRetryDelay
    \/ HandleRequestErrorRetry
    \/ HandleSuccessfulResponse
    \/ HandleResponse

Spec == Init /\ [][Next]_vars

-----------------------------------------------------------------------------
(* main *)

InitArgs ==
    InitMain /\ RequestIdle /\ StatusIdle /\ JsonIdle /\ FormatIdle /\ BoundIdle

NextArgs ==
    \/ ParseArgs
    \/ LoadConfigIfSpecified
    \/ ApplyArgsToConfig
    \/ ValidateConfig

SpecArgs == InitArgs /\ [][NextArgs]_vars

-----------------------------------------------------------------------------
(* extract_json_path over the bodies and paths of the model *)

InitJsonPath ==
    InitJson /\ RequestIdle /\ MainIdle /\ StatusIdle /\ FormatIdle /\ BoundIdle

NextJson == ExtractJsonPath

SpecJson == InitJsonPath /\ [][NextJson]_vars

-----------------------------------------------------------------------------
(* should_retry_for_status over the u16 status codes *)

InitStatus ==
    /\ status_arg \in 0..(U16 - 1)
    /\ verdict = NoVerdict
    /\ RequestIdle /\ MainIdle /\ JsonIdle /\ FormatIdle /\ BoundIdle

ShouldRetryForStatus ==
    /\ ~verdict.known
    /\ verdict' = [known |-> TRUE, retry |-> should_retry_for_status(status_arg)]
    /\ UNCHANGED status_arg
    /\ UNCHANGED <<request_vars, main_vars, json_vars, format_vars, bound_vars>>

NextStatus == ShouldRetryForStatus

SpecStatus == InitStatus /\ [][NextStatus]_vars

-----------------------------------------------------------------------------
(* execute_request as a program that keeps running: it is one thread, every  *)
(* step of it returns (client.execute within the timeout of the client,      *)
(* thread::sleep after its duration), so a step that can be taken is taken.  *)
(* The header list and the credentials, which only the request trace reads,  *)
(* are left out of its configurations.                                       *)

InitLive == Init /\ config.headers = None /\ config.basic_auth = None

SpecLive == InitLive /\ [][Next]_vars /\ WF_vars(Next)

-----------------------------------------------------------------------------
(* format_response_body over the bodies of the model *)

InitFormatBody ==
    InitFormat /\ RequestIdle /\ MainIdle /\ StatusIdle /\ JsonIdle /\ BoundIdle

NextFormat == FormatResponseBody

SpecFormat == InitFormatBody /\ [][NextFormat]_vars

-----------------------------------------------------------------------------
(* The attempt bound over the u32 retry counts *)

InitMaxAttempts ==
    InitBound /\ RequestIdle /\ MainIdle /\ StatusIdle /\ JsonIdle /\ FormatIdle

NextBound ==
    \/ ComputeMaxAttempts
    \/ FirstTurn

SpecBound == InitMaxAttempts /\ [][NextBound]_vars

-----------------------------------------------------------------------------
(* Properties of execute_request *)

LoopEnded == pc \in {"received", "respond", "done"}

Retryable(status) == status \in (500..599) \cup {429, 408}

EveryAttempt(P(_)) == outcomes # <<>> /\ \A i \in DOMAIN outcomes : P(outcomes[i])

Is503(outcome) == outcome.kind = "response" /\ outcome.status = 503
IsTransportError(outcome) == outcome.kind = "error"

ResponseLines ==
    {i \in DOMAIN stdout : stdout[i].kind \in {"status_line", "body"}}

(* C1: when every attempt receives a 503, the engine makes exactly          *)
(* retries + 1 attempts and sleeps exactly retries times, one sleep between  *)
(* two attempts, the k-th sleep lasting retry_delay * 2^(k-1).               *)
C1_Always503Backoff ==
    EveryAttempt(Is503) =>
        /\ Len(outcomes) <= config.retry + 1
        /\ current_attempt = Len(outcomes)
        /\ Len(sleeps) = IF pc = "attempting" THEN Len(outcomes) ELSE Len(outcomes) - 1
        /\ \A k \in DOMAIN sleeps : sleeps[k] = config.retry_delay * 2^(k - 1)
        /\ LoopEnded => /\ Len(outcomes) = config.retry + 1
                        /\ Len(sleeps) = config.retry

C1_Witness ==
    /\ EveryAttempt(Is503)
    /\ pc = "done"
    /\ config.retry >= 2
    /\ config.retry_delay >= 2
    /\ Len(sleeps) = config.retry

(* C2: when the first attempt receives a response whose status is not        *)
(* retryable, that attempt is the only one, nothing is slept, and the loop   *)
(* ends on that response: the engine returns it, or the error of reading     *)
(* its body, and never a transport error.                                    *)
C2_NonRetryableFirstIsTerminal ==
    (outcomes # <<>> /\ outcomes[1].kind = "response"
        /\ ~Retryable(outcomes[1].status)) =>
        /\ Len(outcomes) = 1
        /\ current_attempt = 1
        /\ sleeps = <<>>
        /\ LoopEnded
        /\ engine.kind = "response" => engine = outcomes[1]
        /\ engine.kind = "error" => engine.error = "body" /\ engine.attempt = 1
        /\ pc \in {"respond", "done"} => engine.kind # "none"

C2_Witness ==
    /\ pc = "done"
    /\ config.retry >= 2
    /\ Len(outcomes) = 1
    /\ outcomes[1].kind = "response"
    /\ outcomes[1].status = 404
    /\ engine = outcomes[1]
    /\ result.ok

(* C3: when every attempt ends in a transport error, the engine makes        *)
(* retries + 1 attempts and returns the error of the last one; it returns no *)
(* response, handle_response does not run and nothing is written.            *)
C3_TransportErrorsExhaust ==
    EveryAttempt(IsTransportError) =>
        /\ Len(outcomes) <= config.retry + 1
        /\ pc \notin {"received", "respond"}
        /\ engine.kind # "response"
        /\ rendered = NoValue
        /\ file = NoFile
        /\ ResponseLines = {}
        /\ pc = "done" <=> Len(outcomes) = config.retry + 1
        /\ pc = "done" => /\ engine = Last(outcomes)
                          /\ result = Err(Last(outcomes).error)

C3_Witness ==
    /\ EveryAttempt(IsTransportError)
    /\ pc = "done"
    /\ config.retry >= 2
    /\ outcomes[1].error # Last(outcomes).error
    /\ result = Err(Last(outcomes).error)

LastAttemptRetryable ==
    /\ Len(outcomes) = config.retry + 1
    /\ Last(outcomes).kind = "response"
    /\ Retryable(Last(outcomes).status)

(* C4 as stated: a retryable status at attempt retries + 1 is returned as a  *)
(* completed response, never as an error, and reaches handle_response.       *)
C4_LastRetryableIsOk ==
    (LastAttemptRetryable /\ pc = "done") =>
        /\ engine = Last(outcomes)
        /\ rendered = Last(outcomes)

(* C4 as amended: a retryable status at attempt retries + 1 ends the loop    *)
(* without a further attempt or sleep.  When the body of that response is    *)
(* read, the engine returns the response and handle_response receives it;    *)
(* when reading the body fails, the read error is returned and               *)
(* handle_response does not run.                                             *)
C4_LastRetryableEndsLoop ==
    LastAttemptRetryable =>
        /\ LoopEnded
        /\ Len(sleeps) = config.retry
        /\ engine.kind = "response" => engine = Last(outcomes)
        /\ engine.kind = "error" =>
              /\ engine.error = "body"
              /\ result = Err("body")
              /\ rendered = NoValue
        /\ pc = "done" =>
              /\ engine.kind # "none"
              /\ engine.kind = "response" => rendered = Last(outcomes)

C4_Witness ==
    /\ LastAttemptRetryable
    /\ pc = "done"
    /\ config.retry >= 1
    /\ Last(outcomes).status = 503
    /\ rendered = Last(outcomes)
    /\ result.ok

(* C6: with dry_run set, execute_request makes no attempt, sleeps nothing    *)
(* and renders or writes no response, whatever retry, output and silent      *)
(* are; once the client and the request are constructed it prints the        *)
(* request trace iff verbose is set and returns success.                     *)
C6_DryRunMakesNoAttempt ==
    config.dry_run =>
        /\ pc \in {"start", "context", "done"}
        /\ current_attempt = 0
        /\ outcomes = <<>>
        /\ sleeps = <<>>
        /\ engine = NoValue
        /\ rendered = NoValue
        /\ file = NoFile
        /\ ResponseLines = {}
        /\ (pc = "done" /\ context # NoContext) =>
              /\ result = Ok
              /\ config.verbose <=> stdout # <<>>
              /\ config.verbose => stdout[1].kind = "request_line"

C6_Witness ==
    /\ config.dry_run
    /\ pc = "done"
    /\ result = Ok
    /\ config.verbose
    /\ config.retry >= 1
    /\ config.output.some
    /\ ~config.silent

(* C8: every Authorization header of the verbose request trace shows the     *)
(* redacted placeholder, whether it comes from the configured header list    *)
(* or from the basic-auth credentials.                                       *)
C8_AuthorizationRedacted ==
    \A i \in DOMAIN stdout :
        (stdout[i].kind = "request_header" /\ stdout[i].name = AUTHORIZATION)
            => stdout[i].value = BASIC_AUTH_PLACEHOLDER

(* C7: an option passed on the command line overrides the preset's value of *)
(* the same field, a preset's value overrides the built-in default, for     *)
(* method, retry, retry_delay and timeout, also when the passed value is    *)
(* the built-in default.                                                    *)
C7_ExplicitOverridesPreset ==
    mpc \in {"validate", "execute", "missing_url"} =>
        \A f \in {"method", "retry", "retry_delay", "timeout"} :
            merged[f] = IF cli[f].some THEN cli[f].value
                        ELSE IF preset.some /\ preset.value[f].some
                             THEN preset.value[f].value
                             ELSE config_default[f]

(* C5: should_retry_for_status(status) is true iff status is in [500, 599]  *)
(* or is 429 or 408, for every 16-bit status.                               *)
C5_RetryableIff ==
    verdict.known =>
        (verdict.retry <=> (status_arg \in (500..599) \cup {429, 408}))

C5_Witness ==
    /\ verdict.known
    /\ verdict.retry
    /\ status_arg = 429

(* What a segment of a path is, read off its characters *)
HasKey(value, key) == value.t = "obj" /\ \E i \in DOMAIN value.v : value.v[i][1] = key

ValueOfKey(value, key) ==
    value.v[CHOOSE i \in DOMAIN value.v : value.v[i][1] = key][2]

HasBracket(part) == \E i \in DOMAIN part : part[i] = "["

OpenAt(part) == CHOOSE i \in DOMAIN part : part[i] = "[" /\ \A j \in 1..(i - 1) : part[j] # "["

HasClose(part) == \E j \in (OpenAt(part) + 1)..Len(part) : part[j] = "]"

CloseAt(part) ==
    CHOOSE j \in (OpenAt(part) + 1)..Len(part) :
        part[j] = "]" /\ \A k \in (OpenAt(part) + 1)..(j - 1) : part[k] # "]"

(* the digits between the brackets, after the sign usize::from_str allows *)
IndexText(part) ==
    LET text == SubSeq(part, OpenAt(part) + 1, CloseAt(part) - 1)
    IN  IF text # <<>> /\ text[1] = "+" THEN Tail(text) ELSE text

(* name[index] or [index] with a decimal index *)
IsIndexed(part) ==
    /\ HasBracket(part)
    /\ HasClose(part)
    /\ IndexText(part) # <<>>
    /\ \A i \in DOMAIN IndexText(part) : IndexText(part)[i] \in Digits

IndexedName(part) == SubSeq(part, 1, OpenAt(part) - 1)

RECURSIVE Decimal(_)
Decimal(digits) ==
    IF digits = <<>> THEN 0
    ELSE 10 * Decimal(SubSeq(digits, 1, Len(digits) - 1))
         + (CHOOSE d \in 0..9 : ToString(d) = digits[Len(digits)])

(* the value name[index] indexes: the current value, or its field name, or  *)
(* null when it has no such field                                           *)
IndexedTarget(value, part) ==
    IF IndexedName(part) = <<>> THEN value
    ELSE IF HasKey(value, IndexedName(part)) THEN ValueOfKey(value, IndexedName(part))
    ELSE JNull

OutOfRange(value, part) ==
    LET target == IndexedTarget(value, part)
    IN  target.t # "arr" \/ Decimal(IndexText(part)) >= Len(target.v)

Steps == DOMAIN extracted.result.parts
Before(i) == extracted.result.values[i]
After(i) == extracted.result.values[i + 1]
Part(i) == extracted.result.parts[i]

(* what holds of extract_json_path in any case: it returns Ok with the      *)
(* value after the last segment, a segment applied to null yields null, a   *)
(* bare name that is no key of the current value yields null, and an index  *)
(* that is out of range or applied to a non-array yields null               *)
NullSafe ==
    /\ extracted.result.ok
    /\ Len(extracted.result.values) = Len(extracted.result.parts) + 1
    /\ extracted.result.value = Last(extracted.result.values)
    /\ \A i \in Steps :
          /\ Before(i) = JNull => After(i) = JNull
          /\ (~HasBracket(Part(i)) /\ ~HasKey(Before(i), Part(i))) => After(i) = JNull
          /\ (IsIndexed(Part(i)) /\ OutOfRange(Before(i), Part(i))) => After(i) = JNull

(* C10 as stated: extract_json_path never returns an error, and a segment    *)
(* that names a missing key, reads a field of a non-object, or uses an       *)
(* out-of-range or invalid index yields null, as does every later segment.   *)
C10_NeverErrorsAlwaysNull ==
    extracted.done =>
        /\ NullSafe
        /\ \A i \in Steps :
              (HasBracket(Part(i)) /\ ~IsIndexed(Part(i))) => After(i) = JNull

(* C10 as amended: extract_json_path never returns an error; a segment that  *)
(* names a missing key, reads a field of a non-object or uses an             *)
(* out-of-range index yields null, as does every later segment; a segment    *)
(* whose index is invalid is looked up whole as a field name, and yields     *)
(* null unless the current value is an object with a key spelled exactly     *)
(* like the segment.                                                         *)
C10_NeverErrorsNullSafe ==
    extracted.done =>
        /\ NullSafe
        /\ \A i \in Steps :
              (HasBracket(Part(i)) /\ ~IsIndexed(Part(i))) =>
                  After(i) = IF HasKey(Before(i), Part(i))
                             THEN ValueOfKey(Before(i), Part(i))
                             ELSE JNull

C10_Witness ==
    /\ extracted.done
    /\ json_arg = JObj(<< <<<<"a">>, JNum(<<"1">>)>> >>)
    /\ path_arg = <<"a", ".", "a", ".", "a">>
    /\ extracted.result.parts = << <<"a">>, <<"a">>, <<"a">> >>
    /\ extracted.result.values[2] = JNum(<<"1">>)
    /\ extracted.result.ok
    /\ extracted.result.value = JNull

(* C9: a method that is none of GET, POST, PUT, DELETE, HEAD, PATCH makes    *)
(* request construction fail: execute_request returns the error with no      *)
(* attempt, no sleep and no output, whatever the retry count.                *)
C9_UnknownMethodFailsBeforeNetwork ==
    config.method \notin {"GET", "POST", "PUT", "DELETE", "HEAD", "PATCH"} =>
        /\ pc \in {"start", "done"}
        /\ pc = "done" => (result.done /\ ~result.ok)
        /\ current_attempt = 0
        /\ outcomes = <<>>
        /\ sleeps = <<>>
        /\ stdout = <<>>
        /\ file = NoFile
        /\ rendered = NoValue

C9_Witness ==
    /\ config.method = "OPTIONS"
    /\ pc = "done"
    /\ result = Err(ERROR_UNKNOWN_METHOD)
    /\ config.retry >= 1
    /\ config.verbose
    /\ config.url_valid

-----------------------------------------------------------------------------
(* Properties of the retry loop over every sequence of outcomes *)

IsRetryableStatus(outcome) == outcome.kind = "response" /\ Retryable(outcome.status)

(* the attempts made when the loop is between two attempts or has ended *)
SleepsDue ==
    IF pc = "attempting" THEN Len(outcomes)
    ELSE IF outcomes = <<>> THEN 0
    ELSE Len(outcomes) - 1

(* C13: whatever the outcomes are, the sleep before attempt n + 1 lasts     *)
(* retry_delay * 2^(n-1), after a transport error as after a retryable       *)
(* status; there is exactly one sleep between two consecutive attempts and   *)
(* none after the last one.                                                  *)
C13_BackoffForAnyOutcomes ==
    /\ Len(sleeps) = SleepsDue
    /\ \A n \in DOMAIN sleeps :
          /\ sleeps[n] = config.retry_delay * 2^(n - 1)
          /\ IsTransportError(outcomes[n]) \/ IsRetryableStatus(outcomes[n])
    /\ LoopEnded /\ outcomes # <<>> => Len(sleeps) = Len(outcomes) - 1

C13_Witness ==
    /\ pc = "done"
    /\ Len(outcomes) = 3
    /\ IsTransportError(outcomes[1])
    /\ IsRetryableStatus(outcomes[2])
    /\ sleeps = <<config.retry_delay, config.retry_delay * 2>>
    /\ config.retry_delay > 1

(* The states of the retry engine *)
Attempting == pc = "attempting"
Backoff == pc \in {"retry_status", "retry_error"}
Done == LoopEnded /\ outcomes # <<>> /\ Last(outcomes).kind = "response"
Failed ==
    /\ pc = "done"
    /\ outcomes # <<>>
    /\ IsTransportError(Last(outcomes))
    /\ engine = Last(outcomes)
    /\ result = Err(engine.error)

(* an attempt: one more outcome, the counter one higher, and the transition  *)
(* of the state machine on that outcome                                      *)
AttemptStep ==
    LET n == current_attempt'
        outcome == Last(outcomes')
        more == n < config.retry + 1
    IN  /\ n = current_attempt + 1
        /\ Len(outcomes') = Len(outcomes) + 1
        /\ outcome.attempt = n
        /\ IF IsTransportError(outcome)
           THEN IF more THEN pc' = "retry_error" ELSE Failed'
           ELSE IF Retryable(outcome.status) /\ more
           THEN pc' = "retry_status"
           ELSE pc' = "received" /\ Done'

(* any other step leaves the attempts alone, and a backoff leads to the next *)
(* attempt                                                                   *)
OtherStep ==
    /\ current_attempt' = current_attempt
    /\ outcomes' = outcomes
    /\ Backoff => Attempting'
    /\ ~Attempting => (Attempting' => Backoff \/ pc = "context")

(* C14: for every sequence of outcomes the loop follows the state machine   *)
(* Attempting(n) -> Backoff -> Attempting(n+1) | Done | Failed: attempts run *)
(* one at a time, the counter grows by one per attempt and never exceeds     *)
(* retries + 1, and an engine that is attempting ends in Done or Failed.     *)
C14_RetryLoopTerminates ==
    /\ [](current_attempt = Len(outcomes) /\ current_attempt <= config.retry + 1)
    /\ [][IF Attempting THEN AttemptStep ELSE OtherStep]_vars
    /\ [](Attempting => <>(Done \/ Failed))

C14_Witness ==
    /\ Failed
    /\ current_attempt = config.retry + 1
    /\ config.retry >= 2
    /\ IsRetryableStatus(outcomes[1])

-----------------------------------------------------------------------------
(* Properties of output_response *)

BodyLines == {i \in DOMAIN stdout : stdout[i].kind = "body"}

BodyLineOf(response) ==
    Line("body", ToString(response.attempt), ToString(response.status))

HandleResponseRan == pc = "done" /\ rendered # NoValue

(* what holds without an output target, and before handle_response runs *)
RoutingWithoutTarget ==
    /\ rendered = NoValue => file = NoFile /\ BodyLines = {}
    /\ HandleResponseRan /\ ~config.output.some =>
          /\ file = NoFile
          /\ result = Ok
          /\ config.silent => BodyLines = {}
          /\ ~config.silent => /\ BodyLines = {Len(stdout)}
                               /\ Last(stdout) = BodyLineOf(rendered)

(* C12 as stated: with an output target the body is written to it, silent   *)
(* or not, and is not printed; without a target the body is printed iff      *)
(* silent is off, and is discarded when silent is on.                        *)
C12_OutputRoutingAlwaysWritten ==
    /\ RoutingWithoutTarget
    /\ HandleResponseRan /\ config.output.some =>
          /\ file = [written |-> TRUE, data |-> rendered]
          /\ BodyLines = {}

(* C12 as amended: with an output target the body is never printed, silent  *)
(* or not; it is written to the target unless creating or writing the file   *)
(* fails, and then output_response returns that error.  Without a target     *)
(* the body is printed iff silent is off, and is discarded when silent is on.*)
C12_OutputRouting ==
    /\ RoutingWithoutTarget
    /\ HandleResponseRan /\ config.output.some =>
          /\ BodyLines = {}
          /\ result = Ok => file = [written |-> TRUE, data |-> rendered]
          /\ result # Ok => result = Err("file") /\ file = NoFile

C12_Witness ==
    /\ HandleResponseRan
    /\ config.output.some
    /\ config.silent
    /\ file = [written |-> TRUE, data |-> rendered]
    /\ result = Ok

-----------------------------------------------------------------------------
(* Properties of format_response_body *)

ParsesAsJson(body) == from_str(body).ok

(* C11: a body that does not parse as JSON is returned unchanged and        *)
(* without an error, whatever pretty_json and json_filter are.               *)
C11_NonJsonBodyUnchanged ==
    formatted.done /\ ~ParsesAsJson(body_arg) =>
        /\ formatted.result.ok
        /\ formatted.result.text = body_arg

C11_Witness ==
    /\ formatted.done
    /\ body_arg = <<"h", "e", "l", "l", "o", " ", "w", "o", "r", "l", "d">>
    /\ format_config.pretty_json
    /\ format_config.json_filter = Some(<<"a">>)
    /\ formatted.result = FormatOk(body_arg)

-----------------------------------------------------------------------------
(* Properties of the attempt bound *)

(* m = r + 1 as numbers: no u32 is the successor of u32::MAX *)
IsSuccessor(m, r) ==
    \/ r.lo < U16 - 1 /\ m = u32(r.hi, r.lo + 1)
    \/ r.lo = U16 - 1 /\ r.hi < U16 - 1 /\ m = u32(r.hi + 1, 0)

BoundComputed == bound.pc # "entry"

(* C15: for every u32 retry the attempt bound is retry + 1: the addition    *)
(* neither aborts the invocation nor wraps to a bound below the attempt      *)
(* counter.                                                                  *)
C15_MaxAttemptsIsRetriesPlusOne ==
    BoundComputed =>
        /\ bound.pc # "panicked"
        /\ IsSuccessor(bound.max_attempts, retry_arg)
        /\ ~u32_lt(bound.max_attempts, bound.current_attempt)

(* the same without the top value: the bound is retry + 1 for every retry    *)
(* below u32::MAX                                                            *)
C15_BelowMax ==
    BoundComputed /\ retry_arg # u32_MAX =>
        /\ bound.pc # "panicked"
        /\ IsSuccessor(bound.max_attempts, retry_arg)
        /\ ~u32_lt(bound.max_attempts, bound.current_attempt)

C15_WrapsToZero ==
    /\ retry_arg = u32_MAX
    /\ ~overflow_checks
    /\ bound.pc = "returned"
    /\ bound.max_attempts = u32_of(0)
    /\ bound.current_attempt = u32_of(1)
    /\ IsTransportError(bound.outcome)

C15_Panics ==
    /\ retry_arg = u32_MAX
    /\ overflow_checks
    /\ bound.pc = "panicked"

=============================================================================
